---- MODULE Spec2Model ----
(***************************************************************************)
(* The module system of Extendables (src/minified.jsx, lines 2239-2368)    *)
(* together with the start-up script around it: the log buffer (line 3),   *)
(* the settings loader (2225-2236), load_modules (2350-2368) and the flush *)
(* of the buffered log messages into the logger (2399-2411).               *)
(*                                                                         *)
(* A JavaScript string is a sequence of one-character strings, so that     *)
(* split, indexOf, endswith and concatenation are computed as the code     *)
(* computes them.  A JavaScript object is a function from property names   *)
(* to values; the exports containers live in a heap and are named by their *)
(* reference (their index in the heap), so that two containers with equal  *)
(* contents are still two objects.                                         *)
(***************************************************************************)
EXTENDS Naturals, Integers, Sequences, FiniteSets, TLC

VARIABLES
    pc,           \* position of the start-up script
    __modules__,  \* the registry: top-level id -> Module object
    heap,         \* the exports containers allocated by Module.eval
    log_buffer,   \* messages pushed before (and after) the logger exists
    delivered,    \* messages handed to syslog.log, in order
    ticks,        \* a global counter bumped by the body of a counting module
    executed,     \* per source file: how often $.evalFile ran its body
    global,       \* $.global: names written by extract
    trace,        \* the calls made so far, each with its outcome
    stack         \* the calls in progress when require is run step by step

vars == <<pc, __modules__, heap, log_buffer, delivered, ticks, executed, global, trace,
         stack>>

(***************************************************************************)
(* Bounds of the model.                                                    *)
(***************************************************************************)
MaxCalls == 2

(***************************************************************************)
(* Strings.                                                                *)
(***************************************************************************)
s_index == <<"i", "n", "d", "e", "x">>
s_lib == <<"l", "i", "b">>
s_jsx == <<".", "j", "s", "x">>
NoPackageNamed == <<"N", "o", " ", "p", "a", "c", "k", "a", "g", "e", " ", "n", "a", "m", "e", "d", " ">>

\* String.prototype.indexOf: the 0-based position of the first occurrence
\* of sub in s, or -1.
IndexOf(s, sub) ==
    LET hits == {i \in 0..(Len(s) - Len(sub)) :
                    \A k \in 1..Len(sub) : s[i + k] = sub[k]}
    IN  IF hits = {} THEN -1
        ELSE CHOOSE i \in hits : \A j \in hits : i <= j

\* String.prototype.contains (str.indexOf(substring) != -1).
Contains(s, sub) == IndexOf(s, sub) # -1

\* String.prototype.endswith, as patched in at line 204: the FIRST
\* occurrence of the substring has to sit at the end.
EndsWith(s, sub) == Len(s) # 0 /\ IndexOf(s, sub) = Len(s) - Len(sub)

\* String.prototype.split on a one-character separator.
RECURSIVE Split(_, _)
Split(s, sep) ==
    LET i == IndexOf(s, <<sep>>)
    IN  IF i = -1 THEN <<s>>
        ELSE <<SubSeq(s, 1, i)>> \o Split(SubSeq(s, i + 2, Len(s)), sep)

(***************************************************************************)
(* The file system the start-up script scans.  A File or Folder object is  *)
(* the number of its entry in FS; 0 is no entry.                          *)
(***************************************************************************)
n_extendables == <<"e", "x", "t", "e", "n", "d", "a", "b", "l", "e", "s">>
n_core == <<"c", "o", "r", "e", "-", "p", "a", "c", "k", "a", "g", "e", "s">>
n_p == <<"p">>
n_q == <<"q">>
n_q_jsx == <<"q", ".", "j", "s", "x">>
n_s == <<"s">>
n_test == <<"t", "e", "s", "t">>
n_index_jsx == <<"i", "n", "d", "e", "x", ".", "j", "s", "x">>
n_good_jsx == <<"g", "o", "o", "d", ".", "j", "s", "x">>
n_bad_jsx == <<"b", "a", "d", ".", "j", "s", "x">>
n_leaf_jsx == <<"l", "e", "a", "f", ".", "j", "s", "x">>
n_empty_jsx == <<"e", "m", "p", "t", "y", ".", "j", "s", "x">>
n_solo_jsx == <<"s", "o", "l", "o", ".", "j", "s", "x">>
n_readme == <<"r", "e", "a", "d", "m", "e", ".", "t", "x", "t">>
n_sample == <<"s", "a", "m", "p", "l", "e", ".", "s", "p", "e", "c", "s">>
n_notes == <<"n", "o", "t", "e", "s", ".", "t", "x", "t">>
n_inner_jsx == <<"i", "n", "n", "e", "r", ".", "j", "s", "x">>
n_dup_jsx == <<"d", "u", "p", ".", "j", "s", "x">>
n_dup == <<"d", "u", "p">>
n_link_jsx == <<"l", "i", "n", "k", ".", "j", "s", "x">>
n_site == <<"s", "i", "t", "e", "-", "p", "a", "c", "k", "a", "g", "e", "s">>
n_more == <<"m", "o", "r", "e", "-", "p", "a", "c", "k", "a", "g", "e", "s">>
n_r == <<"r">>
n_needs_jsx == <<"n", "e", "e", "d", "s", ".", "j", "s", "x">>
n_uses_jsx == <<"u", "s", "e", "s", ".", "j", "s", "x">>
n_wants_jsx == <<"w", "a", "n", "t", "s", ".", "j", "s", "x">>
n_chain_jsx == <<"c", "h", "a", "i", "n", ".", "j", "s", "x">>

Entry(name, kind, parent, alias, target) ==
    [name |-> name, kind |-> kind, parent |-> parent, alias |-> alias, target |-> target]

FS ==
    << Entry(n_extendables, "folder", 0, FALSE, 0),   \*  1  Folder.extendables
       Entry(n_core,        "folder", 1, FALSE, 0),   \*  2  core-packages
       Entry(n_p,           "folder", 2, FALSE, 0),   \*  3  core-packages/p
       Entry(s_lib,         "folder", 3, FALSE, 0),   \*  4  p/lib
       Entry(n_index_jsx,   "file",   4, FALSE, 0),   \*  5  p/lib/index.jsx
       Entry(n_good_jsx,    "file",   4, FALSE, 0),   \*  6  p/lib/good.jsx
       Entry(n_bad_jsx,     "file",   4, FALSE, 0),   \*  7  p/lib/bad.jsx
       Entry(n_s,           "folder", 4, FALSE, 0),   \*  8  p/lib/s
       Entry(n_leaf_jsx,    "file",   8, FALSE, 0),   \*  9  p/lib/s/leaf.jsx
       Entry(n_test,        "folder", 3, FALSE, 0),   \* 10  p/test
       Entry(n_sample,      "file",  10, FALSE, 0),   \* 11  p/test/sample.specs
       Entry(n_notes,       "file",  10, FALSE, 0),   \* 12  p/test/notes.txt
       Entry(n_readme,      "file",   2, FALSE, 0),   \* 13  core-packages/readme.txt
       Entry(n_solo_jsx,    "file",   2, FALSE, 0),   \* 14  core-packages/solo.jsx
       Entry(n_q_jsx,       "file",   2, TRUE, 16),   \* 15  core-packages/q.jsx, an alias
       Entry(n_q,           "folder", 1, FALSE, 0),   \* 16  the folder the alias names
       Entry(s_lib,         "folder", 16, FALSE, 0),  \* 17  q/lib
       Entry(n_index_jsx,   "file",  17, FALSE, 0),   \* 18  q/lib/index.jsx
       Entry(n_empty_jsx,   "file",  17, FALSE, 0),   \* 19  q/lib/empty.jsx
       Entry(s_lib,         "folder", 8, FALSE, 0),   \* 20  p/lib/s/lib
       Entry(n_inner_jsx,   "file",  20, FALSE, 0),   \* 21  p/lib/s/lib/inner.jsx
       Entry(n_dup_jsx,     "file",   8, FALSE, 0),   \* 22  p/lib/s/dup.jsx
       Entry(n_dup,         "folder", 8, FALSE, 0),   \* 23  p/lib/s/dup, listed after it
       Entry(n_link_jsx,    "file",   4, TRUE, 16),   \* 24  p/lib/link.jsx, an alias of q
       Entry(n_site,        "folder", 1, FALSE, 0),   \* 25  site-packages
       Entry(n_solo_jsx,    "file",  25, FALSE, 0),   \* 26  site-packages/solo.jsx
       Entry(n_sample,      "file",   4, FALSE, 0),   \* 27  p/lib/sample.specs
       Entry(n_more,        "folder", 1, FALSE, 0),   \* 28  more-packages
       Entry(n_r,           "folder", 28, FALSE, 0),  \* 29  more-packages/r
       Entry(s_lib,         "folder", 29, FALSE, 0),  \* 30  r/lib, without index.jsx
       Entry(n_needs_jsx,   "file",  30, FALSE, 0),   \* 31  r/lib/needs.jsx
       Entry(n_uses_jsx,    "file",  30, FALSE, 0),   \* 32  r/lib/uses.jsx
       Entry(n_wants_jsx,   "file",  30, FALSE, 0),   \* 33  r/lib/wants.jsx
       Entry(n_chain_jsx,   "file",  30, FALSE, 0) >> \* 34  r/lib/chain.jsx

\* settings.package_directories, as the settings file names them.
package_directories == <<n_core, n_site>>

\* The same with one more search folder, whose package r holds the modules
\* that call require themselves.
more_package_directories == <<n_core, n_site, n_more>>

\* file_or_folder.is(Folder)
IsFolder(f) == FS[f].kind = "folder"

\* new Folder(name).at(base) / base.changePath("./" + name)
At(name, base) ==
    LET hits == {f \in DOMAIN FS : FS[f].parent = base /\ FS[f].name = name}
    IN  IF hits = {} THEN 0 ELSE CHOOSE f \in hits : TRUE

\* function _is_valid_module, of what it reads of the entry: whether it is a
\* Folder, and its name.
Accepts(is_folder, name) == is_folder \/ EndsWith(name, s_jsx)

\* function _is_valid_module
is_valid_module(file_or_folder) ==
    Accepts(IsFolder(file_or_folder), FS[file_or_folder].name)

\* What folder.getFiles(_is_valid_module) lists for each folder: its valid
\* entries, in listing order.
Listing ==
    [folder \in 0..Len(FS) |->
        LET valid == {f \in DOMAIN FS : FS[f].parent = folder /\ is_valid_module(f)}
        IN  [i \in 1..Cardinality(valid) |->
                CHOOSE f \in valid : Cardinality({g \in valid : g < f}) = i - 1]]

\* folder.getFiles(_is_valid_module)
GetFiles(folder) == Listing[folder]

\* file_or_folder.resolve(): the entry an alias names.
Resolve(file_or_folder) == FS[file_or_folder].target

(***************************************************************************)
(* Values.                                                                 *)
(***************************************************************************)
\* The value of a property that was never set (this.exports before a load).
Undefined == 0

JSTrue == [type |-> "boolean", n |-> 1]
Num(k) == [type |-> "number", n |-> k]
FunctionValue == [type |-> "function", n |-> 0]

NoError == [name |-> "", message |-> <<>>]
TypeError == [name |-> "TypeError", message |-> <<>>]
Error(message) == [name |-> "Error", message |-> message]

\* The names the patches put on Object.prototype (lines 19-128, 1389-1455):
\* every object, a submodules mapping and an exports container included,
\* answers to them with a function.
ObjectPrototype ==
    { <<"m", "e", "r", "g", "e">>,
      <<"c", "l", "o", "n", "e">>,
      <<"k", "e", "y", "s">>,
      <<"v", "a", "l", "u", "e", "s">>,
      <<"i", "s">>,
      <<"h", "a", "s">>,
      <<"h", "a", "s", "_", "o", "w", "n">>,
      <<"t", "o", "_", "c", "o", "n", "s", "o", "l", "e">>,
      <<"s", "e", "r", "i", "a", "l", "i", "z", "e">>,
      <<"d", "e", "s", "e", "r", "i", "a", "l", "i", "z", "e">>,
      <<"t", "o">> }

(***************************************************************************)
(* function Module, its init part (lines 2340-2347) and extract_submodules *)
(* (2290-2301).  A Module object is a record; its submodules are records   *)
(* nested in it.                                                           *)
(***************************************************************************)
RECURSIVE Module(_, _)
RECURSIVE extract_submodules(_, _)

\* file_or_folder.displayName.split('.')[0], for each entry
DisplayId == [f \in DOMAIN FS |-> Split(FS[f].name, ".")[1]]

\* this.id = file_or_folder.displayName.split('.')[0]
ModuleId(file_or_folder) == DisplayId[file_or_folder]

\* The folder itself is listed, a package or not.
extract_submodules_NoLib(file_or_folder, is_package) ==
    LET submodule_files == GetFiles(file_or_folder)
        submodule == [f \in {submodule_files[i] : i \in DOMAIN submodule_files} |->
                         Module(f, FALSE)]
        ids == {ModuleId(submodule_files[i]) : i \in DOMAIN submodule_files}
        last(id) == CHOOSE i \in DOMAIN submodule_files :
                        /\ ModuleId(submodule_files[i]) = id
                        /\ \A j \in DOMAIN submodule_files :
                              ModuleId(submodule_files[j]) = id => j <= i
    IN  [id \in ids |-> submodule[submodule_files[last(id)]]]

\* Of two entries with one id the one listed first stays.
extract_submodules_FirstWins(file_or_folder, is_package) ==
    LET base == IF is_package THEN At(s_lib, file_or_folder) ELSE file_or_folder
        submodule_files == GetFiles(base)
        submodule == [f \in {submodule_files[i] : i \in DOMAIN submodule_files} |->
                         Module(f, FALSE)]
        ids == {ModuleId(submodule_files[i]) : i \in DOMAIN submodule_files}
        first(id) == CHOOSE i \in DOMAIN submodule_files :
                        /\ ModuleId(submodule_files[i]) = id
                        /\ \A j \in DOMAIN submodule_files :
                              ModuleId(submodule_files[j]) = id => i <= j
    IN  [id \in ids |-> submodule[submodule_files[first(id)]]]

extract_submodules(file_or_folder, is_package) ==
    LET base == IF is_package THEN At(s_lib, file_or_folder) ELSE file_or_folder
        submodule_files == GetFiles(base)
        \* var submodule = new Module(submodule), for each file listed
        submodule == [f \in {submodule_files[i] : i \in DOMAIN submodule_files} |->
                         Module(f, FALSE)]
        ids == {ModuleId(submodule_files[i]) : i \in DOMAIN submodule_files}
        \* self.submodules[submodule.id] = submodule, in listing order: the
        \* entry scanned last is the one that stays.
        last(id) == CHOOSE i \in DOMAIN submodule_files :
                        /\ ModuleId(submodule_files[i]) = id
                        /\ \A j \in DOMAIN submodule_files :
                              ModuleId(submodule_files[j]) = id => j <= i
    IN  [id \in ids |-> submodule[submodule_files[last(id)]]]

\* The constructor marks the loader as loaded.
Module_Eager(file_or_folder, is_package) ==
    [ id |-> ModuleId(file_or_folder),
      uri |-> file_or_folder,
      packaged |-> IsFolder(file_or_folder),
      submodules |-> IF IsFolder(file_or_folder)
                     THEN extract_submodules(file_or_folder, is_package)
                     ELSE <<>>,
      exports |-> 1 ]

\* A loader is a package when load_modules says so.
Module_PackagedByFlag(file_or_folder, is_package) ==
    [ id |-> ModuleId(file_or_folder),
      uri |-> file_or_folder,
      packaged |-> is_package,
      submodules |-> IF IsFolder(file_or_folder)
                     THEN extract_submodules(file_or_folder, is_package)
                     ELSE <<>>,
      exports |-> Undefined ]

Module(file_or_folder, is_package) ==
    [ id |-> ModuleId(file_or_folder),
      uri |-> file_or_folder,
      packaged |-> IsFolder(file_or_folder),
      submodules |-> IF IsFolder(file_or_folder)
                     THEN extract_submodules(file_or_folder, is_package)
                     ELSE <<>>,
      exports |-> Undefined ]

\* The entries load_modules visits: for each search folder in turn, what
\* folder.getFiles(_is_valid_module) lists.
RECURSIVE Packages(_)
Packages(packagefolders) ==
    IF packagefolders = <<>> THEN <<>>
    ELSE GetFiles(At(Head(packagefolders), 1)) \o Packages(Tail(packagefolders))

\* function load_modules (lines 2350-2367): every visited entry, an alias
\* resolved first, becomes a Module bound to its id in the registry; of two
\* entries with one id the one visited last stays.
\* Of two visited entries with one id the one visited first stays.
load_modules_FirstWins(packagefolders, registry) ==
    LET packages == Packages(packagefolders)
        file_or_folder == [i \in DOMAIN packages |->
                              IF FS[packages[i]].alias THEN Resolve(packages[i])
                              ELSE packages[i]]
        module == [f \in {file_or_folder[i] : i \in DOMAIN packages} |-> Module(f, TRUE)]
        ids == {ModuleId(file_or_folder[i]) : i \in DOMAIN packages}
        first(id) == CHOOSE i \in DOMAIN packages :
                        /\ ModuleId(file_or_folder[i]) = id
                        /\ \A j \in DOMAIN packages :
                              ModuleId(file_or_folder[j]) = id => i <= j
    IN  [id \in DOMAIN registry \cup ids |->
            IF id \in ids THEN module[file_or_folder[first(id)]] ELSE registry[id]]

load_modules(packagefolders, registry) ==
    LET packages == Packages(packagefolders)
        \* if (file_or_folder.alias) file_or_folder = file_or_folder.resolve()
        file_or_folder == [i \in DOMAIN packages |->
                              IF FS[packages[i]].alias THEN Resolve(packages[i])
                              ELSE packages[i]]
        \* var module = new Module(file_or_folder, true)
        module == [f \in {file_or_folder[i] : i \in DOMAIN packages} |-> Module(f, TRUE)]
        ids == {ModuleId(file_or_folder[i]) : i \in DOMAIN packages}
        \* __modules__[module.id] = module, in the order visited
        last(id) == CHOOSE i \in DOMAIN packages :
                        /\ ModuleId(file_or_folder[i]) = id
                        /\ \A j \in DOMAIN packages :
                              ModuleId(file_or_folder[j]) = id => j <= i
    IN  [id \in DOMAIN registry \cup ids |->
            IF id \in ids THEN module[file_or_folder[last(id)]] ELSE registry[id]]

(***************************************************************************)
(* The source files: what $.evalFile(file) does with the body of each.     *)
(* A body is a sequence of statements over the `exports` in scope.         *)
(***************************************************************************)
k_ok == <<"o", "k">>
k_partial == <<"p", "a", "r", "t", "i", "a", "l">>
k_n == <<"n">>
k_x == <<"x">>
m_boom == <<"b", "o", "o", "m">>

Set(key, val) == [op |-> "set", key |-> key, val |-> val, err |-> NoError]
Tick(key) == [op |-> "tick", key |-> key, val |-> Num(0), err |-> NoError]
Throw(err) == [op |-> "throw", key |-> <<>>, val |-> Num(0), err |-> err]
Requires(module_id) == [op |-> "require", key |-> module_id, val |-> Num(0), err |-> NoError]

\* The identifiers the bodies require.
b_none == <<"n", "o", "n", "e", "x", "i", "s", "t", "e", "n", "t">>
b_p_good == <<"p", "/", "g", "o", "o", "d">>
b_r_q == <<"r", "/", "q">>
b_r_needs == <<"r", "/", "n", "e", "e", "d", "s">>

Body(file) ==
    CASE file = 5  -> <<Tick(k_n)>>                            \* exports.n = ++ticks
      [] file = 6  -> <<Set(k_ok, JSTrue)>>                    \* exports.ok = true
      [] file = 7  -> <<Set(k_partial, Num(1)), Throw(Error(m_boom)), Set(k_ok, JSTrue)>>
      [] file = 9  -> <<Set(k_x, Num(1)), Tick(k_n)>>
      [] file = 14 -> <<Set(k_x, Num(2))>>
      [] file = 18 -> <<Throw(Error(m_boom))>>                 \* raises at once
      [] file = 26 -> <<Set(k_x, Num(3))>>
      [] file = 31 -> <<Set(k_partial, Num(1)), Requires(b_none), Set(k_ok, JSTrue)>>
      [] file = 32 -> <<Requires(b_p_good), Set(k_ok, JSTrue)>>
      [] file = 33 -> <<Requires(b_r_q)>>
      [] file = 34 -> <<Requires(b_r_needs), Set(k_ok, JSTrue)>>
      [] OTHER     -> <<>>                                     \* exports nothing

\* Whether the body of a file raises when it runs.
Raises(file) == \E i \in DOMAIN Body(file) : Body(file)[i].op = "throw"

\* obj[key] = val
Put(obj, key, val) ==
    [k \in DOMAIN obj \cup {key} |-> IF k = key THEN val ELSE obj[k]]

\* $.evalFile(file): the statements run in order against the exports object
\* in scope, up to the first that raises.  This is the run of a body that
\* calls nothing; the bodies that call require (those of package r) are
\* run one statement at a time further below, and are in the search path
\* of that specification alone.
RECURSIVE evalFile(_, _, _)
evalFile(stmts, exports, count) ==
    IF stmts = <<>> THEN [exports |-> exports, ticks |-> count, error |-> NoError]
    ELSE LET st == Head(stmts)
         IN  CASE st.op = "throw" ->
                    [exports |-> exports, ticks |-> count, error |-> st.err]
               [] st.op = "tick" ->
                    evalFile(Tail(stmts), Put(exports, st.key, Num(count + 1)), count + 1)
               [] OTHER ->
                    evalFile(Tail(stmts), Put(exports, st.key, st.val), count)

(***************************************************************************)
(* What a call works on besides the registry: the heap of exports          *)
(* containers, the log buffer, the tick counter and the execution counts.  *)
(***************************************************************************)
Env == [heap |-> heap, log_buffer |-> log_buffer, ticks |-> ticks, executed |-> executed]

\* log_buffer.push([3, "Could not fully load " + module.id + "\n" + error]).
\* The field `about` is bookkeeping, not part of the message: the file whose
\* body raised (two modules may share their local id).
CouldNotFullyLoad(self, error) ==
    [ level |-> 3, text |-> "Could not fully load", id |-> self.id,
      error |-> error, about |-> self.uri ]

\* eval without its try/catch: the error leaves eval.
eval_NoCatch(self, file, env) ==
    LET r == evalFile(Body(file), <<>>, env.ticks)
    IN  [ exports |-> Len(env.heap) + 1,
          error |-> r.error,
          env |-> [ heap |-> Append(env.heap, r.exports),
                    log_buffer |-> env.log_buffer,
                    ticks |-> r.ticks,
                    executed |-> [env.executed EXCEPT ![file] = @ + 1] ] ]

\* eval whose catch swallows the error without pushing a message.
eval_NoLog(self, file, env) ==
    LET r == evalFile(Body(file), <<>>, env.ticks)
    IN  [ exports |-> Len(env.heap) + 1,
          error |-> NoError,
          env |-> [ heap |-> Append(env.heap, r.exports),
                    log_buffer |-> env.log_buffer,
                    ticks |-> r.ticks,
                    executed |-> [env.executed EXCEPT ![file] = @ + 1] ] ]

\* eval whose catch hands back a new, empty exports object.
eval_EmptyOnError(self, file, env) ==
    LET r == evalFile(Body(file), <<>>, env.ticks)
    IN  [ exports |-> Len(env.heap) + 1,
          error |-> NoError,
          env |-> [ heap |-> Append(env.heap,
                                    IF r.error = NoError THEN r.exports ELSE <<>>),
                    log_buffer |-> IF r.error = NoError THEN env.log_buffer
                                   ELSE Append(env.log_buffer,
                                               CouldNotFullyLoad(self, r.error)),
                    ticks |-> r.ticks,
                    executed |-> [env.executed EXCEPT ![file] = @ + 1] ] ]

\* Module.eval (lines 2275-2288): a fresh exports object, the body run
\* against it, a raised error caught and pushed to log_buffer, the exports
\* object returned either way.  No error leaves eval.
eval(self, file, env) ==
    LET r == evalFile(Body(file), <<>>, env.ticks)
    IN  [ exports |-> Len(env.heap) + 1,
          error |-> NoError,
          env |-> [ heap |-> Append(env.heap, r.exports),
                    log_buffer |-> IF r.error = NoError THEN env.log_buffer
                                   ELSE Append(env.log_buffer,
                                               CouldNotFullyLoad(self, r.error)),
                    ticks |-> r.ticks,
                    executed |-> [env.executed EXCEPT ![file] = @ + 1] ] ]

\* obj[key] for a key that may be missing: what kind of value comes back.
LookupKind(obj, key) ==
    IF key \in DOMAIN obj THEN "module"
    ELSE IF key \in ObjectPrototype THEN "function"
    ELSE "undefined"

\* Module.load (lines 2331-2338).  Returns self; error is the exception that
\* leaves load, if any (calling .load() on what is no Module, or an error
\* that leaves eval or the load of the index submodule).
RECURSIVE load(_, _)

\* Loading a package leaves it with its index as its only submodule.
load_KeepsIndexOnly(self, env) ==
    IF self.packaged
    THEN IF LookupKind(self.submodules, s_index) # "module"
         THEN [self |-> self, env |-> env, error |-> TypeError]
         ELSE LET r == load(self.submodules[s_index], env)
              IN  IF r.error # NoError
                  THEN [ self |-> [self EXCEPT !.submodules[s_index] = r.self],
                         env |-> r.env, error |-> r.error ]
                  ELSE [ self |-> [self EXCEPT !.submodules = [key \in {s_index} |-> r.self],
                                               !.exports = r.self.exports],
                         env |-> r.env, error |-> NoError ]
    ELSE LET r == eval(self, self.uri, env)
         IN  IF r.error # NoError
             THEN [self |-> self, env |-> r.env, error |-> r.error]
             ELSE [ self |-> [self EXCEPT !.exports = r.exports],
                    env |-> r.env, error |-> NoError ]

load(self, env) ==
    IF self.packaged
    THEN IF LookupKind(self.submodules, s_index) # "module"
         THEN [self |-> self, env |-> env, error |-> TypeError]
         ELSE LET r == load(self.submodules[s_index], env)
              IN  IF r.error # NoError
                  THEN [ self |-> [self EXCEPT !.submodules[s_index] = r.self],
                         env |-> r.env, error |-> r.error ]
                  ELSE [ self |-> [self EXCEPT !.submodules[s_index] = r.self,
                                               !.exports = r.self.exports],
                         env |-> r.env, error |-> NoError ]
    ELSE LET r == eval(self, self.uri, env)
         IN  IF r.error # NoError
             THEN [self |-> self, env |-> r.env, error |-> r.error]
             ELSE [ self |-> [self EXCEPT !.exports = r.exports],
                    env |-> r.env, error |-> NoError ]

\* Module.get_submodule (lines 2303-2310): the place, as the keys to follow
\* from self, of the value it returns, and what kind of value that is;
\* "throw" when it calls get_submodule on what is no Module.
\* The first term alone is followed.
get_submodule_FirstTermOnly(self, terms) ==
    [kind |-> LookupKind(self.submodules, Head(terms)), path |-> <<Head(terms)>>]

RECURSIVE get_submodule(_, _)
get_submodule(self, terms) ==
    LET key == Head(terms)
        kind == LookupKind(self.submodules, key)
    IN  IF Tail(terms) # <<>>
        THEN IF kind = "module"
             THEN LET r == get_submodule(self.submodules[key], Tail(terms))
                  IN  [kind |-> r.kind, path |-> <<key>> \o r.path]
             ELSE [kind |-> "throw", path |-> <<key>>]
        ELSE [kind |-> kind, path |-> <<key>>]

\* The Module object reached from self along path.
RECURSIVE ModuleAt(_, _)
ModuleAt(self, path) ==
    IF path = <<>> THEN self ELSE ModuleAt(self.submodules[Head(path)], Tail(path))

\* Module.get_subpackages (lines 2312-2316): the submodules kept by the
\* filter, each by its key in self.submodules.
s_tests == <<"t", "e", "s", "t", "s">>

get_subpackages(self) ==
    { key \in DOMAIN self.submodules :
        self.submodules[key].packaged /\ self.submodules[key].id # s_tests }

\* Module.has_subpackages (lines 2318-2320)
has_subpackages(self) == Cardinality(get_subpackages(self)) # 0

\* What testfolder.getFiles("*.specs") keeps: the names "*.specs" matches.
s_specs == <<".", "s", "p", "e", "c", "s">>

MatchesSpecs(name) ==
    /\ Len(name) >= Len(s_specs)
    /\ SubSeq(name, Len(name) - Len(s_specs) + 1, Len(name)) = s_specs

\* The tests are looked for in the `lib` folder.
get_tests_InLib(self) ==
    LET testfolder == At(s_lib, self.uri)
    IN  IF testfolder # 0
        THEN LET found == {f \in DOMAIN FS :
                             FS[f].parent = testfolder /\ MatchesSpecs(FS[f].name)}
             IN  [i \in 1..Cardinality(found) |->
                     CHOOSE f \in found : Cardinality({g \in found : g < f}) = i - 1]
        ELSE <<>>

\* Module.get_tests (lines 2322-2329)
get_tests(self) ==
    LET testfolder == At(n_test, self.uri)
    IN  IF testfolder # 0
        THEN LET found == {f \in DOMAIN FS :
                             FS[f].parent = testfolder /\ MatchesSpecs(FS[f].name)}
             IN  [i \in 1..Cardinality(found) |->
                     CHOOSE f \in found : Cardinality({g \in found : g < f}) = i - 1]
        ELSE <<>>

\* load() called on the Module object reached from self along path; self
\* comes back with that object (and what it loaded) updated in place.
RECURSIVE LoadAt(_, _, _)
LoadAt(self, path, env) ==
    IF path = <<>> THEN load(self, env)
    ELSE LET r == LoadAt(self.submodules[Head(path)], Tail(path), env)
         IN  [ self |-> [self EXCEPT !.submodules[Head(path)] = r.self],
               env |-> r.env, error |-> r.error ]

Returned(registry, env, target, value) ==
    [ outcome |-> "return", value |-> value, error |-> NoError,
      registry |-> registry, env |-> env, target |-> target ]

Thrown(registry, env, target, error) ==
    [ outcome |-> "throw", value |-> Undefined, error |-> error,
      registry |-> registry, env |-> env, target |-> target ]

\* registry[module] becomes self.
Rebind(registry, module, self) == [registry EXCEPT ![module] = self]

\* module.load().exports, for the Module object at path under registry[module]
LoadExports(registry, env, module, path) ==
    LET r == LoadAt(registry[module], path, env)
        after == Rebind(registry, module, r.self)
    IN  IF r.error # NoError
        THEN Thrown(after, r.env, <<module>> \o path, r.error)
        ELSE Returned(after, r.env, <<module>> \o path, ModuleAt(r.self, path).exports)

\* throw Error("No package named " + module) -- the first term alone.
NoPackage_FirstTerm(module, module_id) == Error(NoPackageNamed \o module)

\* throw Error("No package named " + module_id)
NoPackage(module, module_id) == Error(NoPackageNamed \o module_id)

\* function require (lines 2244-2257)
require(module_id, registry, env) ==
    LET terms == Split(module_id, "/")
        module == Head(terms)
    IN  IF module \in DOMAIN registry
        THEN IF Tail(terms) # <<>>
             THEN LET g == get_submodule(registry[module], Tail(terms))
                  IN  IF g.kind = "module"
                      THEN LoadExports(registry, env, module, g.path)
                      ELSE Thrown(registry, env, <<>>, TypeError)
             ELSE LoadExports(registry, env, module, <<>>)
        ELSE Thrown(registry, env, <<>>, NoPackage(module, module_id))

\* for (var name in module): the own names and the enumerable names the
\* patches put on Object.prototype.
ForIn(obj) == DOMAIN obj \cup ObjectPrototype

\* module[name]
Get(obj, name) == IF name \in DOMAIN obj THEN obj[name] ELSE FunctionValue

\* function extract (lines 2259-2266): $.global after the loop.
extract(module, names) ==
    [name \in DOMAIN names \cup ForIn(module) |->
        IF name \in ForIn(module) THEN Get(module, name) ELSE names[name]]

(***************************************************************************)
(* The identifiers and loaders the calls of the model are made with.       *)
(***************************************************************************)
id_p == <<"p">>
id_p_index == <<"p", "/", "i", "n", "d", "e", "x">>
id_p_good == <<"p", "/", "g", "o", "o", "d">>
id_p_bad == <<"p", "/", "b", "a", "d">>
id_p_q == <<"p", "/", "q">>
id_p_s_leaf == <<"p", "/", "s", "/", "l", "e", "a", "f">>
id_p_s_q == <<"p", "/", "s", "/", "q">>
id_p_good_q == <<"p", "/", "g", "o", "o", "d", "/", "q">>
id_p_keys == <<"p", "/", "k", "e", "y", "s">>
id_q == <<"q">>
id_q_empty == <<"q", "/", "e", "m", "p", "t", "y">>
id_solo == <<"s", "o", "l", "o">>
id_none == <<"n", "o", "n", "e", "x", "i", "s", "t", "e", "n", "t">>
id_none_x == <<"n", "o", "n", "e", "x", "i", "s", "t", "e", "n", "t", "/", "x">>

RequireIds ==
    { id_p, id_p_index, id_p_good, id_p_bad, id_p_q, id_p_s_leaf, id_p_s_q,
      id_p_good_q, id_p_keys, id_q, id_q_empty, id_solo, id_none, id_none_x }

ExtractIds == { id_p_good, id_p_bad, id_none }

\* Loaders on which load() is called directly, each by the keys that lead
\* to it from the registry.
LoadTargets ==
    { Split(id, "/") : id \in {id_p, id_p_index, id_p_bad, id_p_s_leaf, id_q, id_q_empty} }

\* Loaders whose get_subpackages, has_subpackages, get_tests and
\* get_submodule are called directly, and the terms get_submodule is given.
id_p_s == <<"p", "/", "s">>

QueryTargets == { Split(id, "/") : id \in {id_p, id_p_s, id_solo} }

SubmoduleTerms == { <<n_s, <<"l", "e", "a", "f">> >>, <<n_s>>, <<n_q>> }

(***************************************************************************)
(* The start-up script and the calls made once require is defined.         *)
(***************************************************************************)
Init ==
    /\ pc = "settings"
    /\ __modules__ = <<>>
    /\ heap = <<>>
    /\ log_buffer = <<>>
    /\ delivered = <<>>
    /\ ticks = 0
    /\ executed = [f \in DOMAIN FS |-> 0]
    /\ global = <<>>
    /\ trace = <<>>
    /\ stack = <<>>

LoadingSettings(project_specific) ==
    [ level |-> 4,
      text |-> IF project_specific
               THEN "Loading Extendables with project-specific settings at {}"
               ELSE "Loading Extendables with default settings",
      id |-> <<>>, error |-> NoError, about |-> 0 ]

\* Lines 2225-2236: one message is buffered, whichever settings file loads.
LoadSettings ==
    /\ pc = "settings"
    /\ \E project_specific \in BOOLEAN :
          log_buffer' = Append(log_buffer, LoadingSettings(project_specific))
    /\ pc' = "modules"
    /\ UNCHANGED <<__modules__, heap, delivered, ticks, executed, global, trace, stack>>

\* Line 2368: load_modules(settings.package_directories)
LoadModules ==
    /\ pc = "modules"
    /\ __modules__' = load_modules(package_directories, __modules__)
    /\ pc' = "logging"
    /\ UNCHANGED <<heap, log_buffer, delivered, ticks, executed, global, trace, stack>>

\* The flush hands over the newest message alone.
FlushLogBuffer_LastOnly ==
    /\ pc = "logging"
    /\ delivered' = delivered \o <<log_buffer[Len(log_buffer)]>>
    /\ pc' = "ready"
    /\ UNCHANGED <<__modules__, heap, log_buffer, ticks, executed, global, trace, stack>>

\* Lines 2399-2411: the logger is constructed and every buffered message is
\* handed to it, in order.  The buffer itself is left as it is.
FlushLogBuffer ==
    /\ pc = "logging"
    /\ delivered' = delivered \o log_buffer
    /\ pc' = "ready"
    /\ UNCHANGED <<__modules__, heap, log_buffer, ticks, executed, global, trace, stack>>

\* require is in scope from the logging core included at line 2403 on.
CanCall == pc \in {"logging", "ready"} /\ Len(trace) < MaxCalls

Call(op, id, r) ==
    [ op |-> op, id |-> id, target |-> r.target, outcome |-> r.outcome,
      value |-> r.value, error |-> r.error, phase |-> pc,
      self |-> <<>>, result |-> <<>> ]

\* The record of a method that loads nothing: the loader it was called on
\* and what it returned.
Query(op, self, result) ==
    [ op |-> op, id |-> <<>>, target |-> <<>>, outcome |-> "return",
      value |-> Undefined, error |-> NoError, phase |-> pc,
      self |-> self, result |-> result ]

Commit(r) ==
    /\ __modules__' = r.registry
    /\ heap' = r.env.heap
    /\ log_buffer' = r.env.log_buffer
    /\ ticks' = r.env.ticks
    /\ executed' = r.env.executed

Require(module_id) ==
    /\ CanCall
    /\ LET r == require(module_id, __modules__, Env)
       IN  /\ Commit(r)
           /\ trace' = Append(trace, Call("require", module_id, r))
    /\ UNCHANGED <<pc, delivered, global, stack>>

Extract(module_id) ==
    /\ CanCall
    /\ LET r == require(module_id, __modules__, Env)
       IN  /\ Commit(r)
           /\ global' = IF r.outcome = "return"
                         THEN extract(r.env.heap[r.value], global)
                         ELSE global
           /\ trace' = Append(trace, Call("extract", module_id, r))
    /\ UNCHANGED <<pc, delivered, stack>>

\* module.load(), called on a loader taken from the registry.
Load(path) ==
    /\ CanCall
    /\ LET r == LoadExports(__modules__, Env, Head(path), Tail(path))
       IN  /\ Commit(r)
           /\ trace' = Append(trace, Call("load", <<>>, r))
    /\ UNCHANGED <<pc, delivered, global, stack>>

\* The methods of a loader that load nothing leave every variable but the
\* record of the call as it was.
Asked(op, self, result) ==
    /\ CanCall
    /\ trace' = Append(trace, Query(op, self, result))
    /\ UNCHANGED <<pc, __modules__, heap, log_buffer, delivered, ticks, executed, global, stack>>

GetSubmodule(self, terms) ==
    Asked("get_submodule", self, get_submodule(ModuleAt(__modules__[Head(self)], Tail(self)), terms))

GetSubpackages(self) ==
    Asked("get_subpackages", self, get_subpackages(ModuleAt(__modules__[Head(self)], Tail(self))))

HasSubpackages(self) ==
    Asked("has_subpackages", self, has_subpackages(ModuleAt(__modules__[Head(self)], Tail(self))))

GetTests(self) ==
    Asked("get_tests", self, get_tests(ModuleAt(__modules__[Head(self)], Tail(self))))

Next ==
    \/ LoadSettings
    \/ LoadModules
    \/ FlushLogBuffer
    \/ \E module_id \in RequireIds : Require(module_id)
    \/ \E module_id \in ExtractIds : Extract(module_id)
    \/ \E path \in LoadTargets : Load(path)
    \/ \E terms \in SubmoduleTerms : GetSubmodule(<<id_p>>, terms)
    \/ \E self \in QueryTargets : GetSubpackages(self)
    \/ \E self \in QueryTargets : HasSubpackages(self)
    \/ \E self \in QueryTargets : GetTests(self)

Spec == Init /\ [][Next]_vars

\* The start-up script is one synchronous run: each of its steps is taken.
\* The calls of require, extract and load are the caller's and may stop.
FairSpec ==
    /\ Spec
    /\ WF_vars(LoadSettings)
    /\ WF_vars(LoadModules)
    /\ WF_vars(FlushLogBuffer)

(***************************************************************************)
(* _is_valid_module on its own: it is given one entry, a file or a folder  *)
(* of any name over a small alphabet, and what it answers is recorded.     *)
(***************************************************************************)
MaxStemLen == 3

NameAlphabet == {"a", ".", "j", "s", "x"}

Stems == UNION { [1..n -> NameAlphabet] : n \in 0..MaxStemLen }

\* Every short name, and every short name with ".jsx" put after it once
\* and twice.
Names ==
    Stems \cup {stem \o s_jsx : stem \in Stems}
          \cup {stem \o s_jsx \o s_jsx : stem \in Stems}

NameInit ==
    /\ pc = "scan"
    /\ __modules__ = <<>>
    /\ heap = <<>>
    /\ log_buffer = <<>>
    /\ delivered = <<>>
    /\ ticks = 0
    /\ executed = [f \in DOMAIN FS |-> 0]
    /\ global = <<>>
    /\ trace = <<>>
    /\ stack = <<>>

Classify(is_folder, name) ==
    /\ pc = "scan"
    /\ trace = <<>>
    /\ trace' = <<[ op |-> "_is_valid_module", is_folder |-> is_folder, name |-> name,
                    result |-> Accepts(is_folder, name) ]>>
    /\ UNCHANGED <<pc, __modules__, heap, log_buffer, delivered, ticks, executed, global, stack>>

NameNext == \E is_folder \in BOOLEAN, name \in Names : Classify(is_folder, name)

NameSpec == NameInit /\ [][NameNext]_vars

(***************************************************************************)
(* The patches on Number, String, File and Object, each applied on its own *)
(* to arguments of small sets; what it returns is recorded.                *)
(***************************************************************************)
\* Math.abs
Abs(n) == IF n < 0 THEN -n ELSE n

\* The for loop of Number.range (lines 1806-1808)
RECURSIVE RangeLoop(_, _, _, _)
RangeLoop(i, to, step, range) ==
    IF Abs(i) < Abs(to) THEN RangeLoop(i + step, to, step, Append(range, i))
    ELSE range

\* Number.range (lines 1796-1811), of its arguments: one, two or three
\* numbers.
NumberRange(arguments) ==
    LET step == IF Len(arguments) >= 3 /\ arguments[3] # 0 THEN arguments[3] ELSE 1
        from == IF Len(arguments) = 1 THEN 0 ELSE arguments[1]
        to == IF Len(arguments) = 1 THEN arguments[1] ELSE arguments[2]
    IN  RangeLoop(from, to, step, <<>>)

\* String.prototype.substr(1) and String.prototype.slice(0, -n)
Substr1(s) == SubSeq(s, 2, Len(s))
SliceOff(s, n) == SubSeq(s, 1, Len(s) - n)

\* String.prototype.ltrim with a character (lines 241-247)
RECURSIVE ltrim(_, _)
ltrim(s, character) ==
    IF EndsWith(s, character) THEN ltrim(Substr1(s), character) ELSE s

\* String.prototype.rtrim with a character (lines 266-271)
RECURSIVE rtrim(_, _)
rtrim(s, character) ==
    IF EndsWith(s, character) THEN rtrim(SliceOff(s, 1), character) ELSE s

\* File.prototype.component (lines 1694-1720), of this.name
component_extension(name) ==
    LET parts == Split(name, ".")
    IN  IF Len(parts) > 1 THEN parts[Len(parts)] ELSE <<>>

component_basename(name) ==
    LET extlen == Len(component_extension(name))
    IN  IF extlen # 0 THEN rtrim(SliceOff(name, extlen), <<".">>) ELSE name

\* String.prototype.split on a separator of one character or more.
RECURSIVE SplitBy(_, _)
SplitBy(s, sep) ==
    LET i == IndexOf(s, sep)
    IN  IF i = -1 THEN <<s>>
        ELSE <<SubSeq(s, 1, i)>> \o SplitBy(SubSeq(s, i + Len(sep) + 1, Len(s)), sep)

\* Array.prototype.join('')
RECURSIVE Concat(_)
Concat(chunks) == IF chunks = <<>> THEN <<>> ELSE Head(chunks) \o Concat(Tail(chunks))

\* The values handed to format and held by the objects that are
\* serialized: strings, numbers of one digit, and undefined.
StringValue(s) == [type |-> "string", n |-> 0, s |-> s]
NumberValue(k) == [type |-> "number", n |-> k, s |-> <<>>]
NoValue == [type |-> "undefined", n |-> 0, s |-> <<>>]

Digits == <<"0", "1", "2", "3", "4", "5", "6", "7", "8", "9">>

\* value.toString(), and the string a value turns into when it is
\* concatenated or given to replace.
toString(value) == IF value.type = "number" THEN <<Digits[value.n + 1]>> ELSE value.s

\* if (value): 0 and "" are not true.
Truthy(value) == IF value.type = "number" THEN value.n # 0 ELSE value.s # <<>>

\* An object with its properties in the order they were added.
Object(properties) == [type |-> "object", properties |-> properties]

\* replacements[0].reflect.name == 'Object'
IsObject(value) == value.type = "object"

\* String.prototype.replace(pattern, replacement, "g") with a string as
\* pattern.  The third argument is no part of the language: an engine
\* replaces every occurrence (all) or the first one alone.
RECURSIVE Replace(_, _, _, _)
Replace(str, pattern, replacement, all) ==
    LET i == IndexOf(str, pattern)
        rest == SubSeq(str, i + Len(pattern) + 1, Len(str))
    IN  IF i = -1 THEN str
        ELSE SubSeq(str, 1, i) \o replacement
             \o (IF all THEN Replace(rest, pattern, replacement, all) ELSE rest)

\* String.prototype.format, named mode (lines 168-174): one replace for
\* each key of the object, in turn.
RECURSIVE format_named(_, _, _)
format_named(str, properties, all) ==
    IF properties = <<>> THEN str
    ELSE format_named(
            Replace(str, <<"{">> \o Head(properties).name \o <<"}">>,
                    toString(Head(properties).value), all),
            Tail(properties), all)

\* String.prototype.format, unnamed mode (lines 175-185).  The loop goes
\* through the indices of chunks and shifts one replacement for each; a
\* replacement is appended only `if (replacement)`.
format_unnamed(str, replacements) ==
    LET chunks == SplitBy(str, <<"{", "}">>)
    IN  Concat([i \in DOMAIN chunks |->
                  IF i <= Len(replacements) /\ Truthy(replacements[i])
                  THEN chunks[i] \o toString(replacements[i])
                  ELSE chunks[i]])

\* String.prototype.format (lines 163-186)
format(str, replacements, all) ==
    IF Len(replacements) = 1 /\ IsObject(replacements[1])
    THEN format_named(str, replacements[1].properties, all)
    ELSE format_unnamed(str, replacements)

\* options["separator"] || "=", options["eol"] || "\n"; an option that is
\* not given is the empty string here.
Separator(options) == IF options.separator # <<>> THEN options.separator ELSE <<"=">>
Eol(options) == IF options.eol # <<>> THEN options.eol ELSE <<"\n">>

\* String.prototype.startswith (lines 194-196)
StartsWith(s, sub) == Len(s) # 0 /\ IndexOf(s, sub) = 0

\* keyvalue.encode (lines 1350-1361), reached by serialize('key-value')
RECURSIVE encode(_, _)
encode(properties, options) ==
    IF properties = <<>> THEN <<>>
    ELSE LET property == Head(properties)
         IN  (IF StartsWith(property.name, <<"_">>) THEN <<>>
              ELSE property.name \o Separator(options)
                   \o toString(property.value) \o Eol(options))
             \o encode(Tail(properties), options)

\* keyvalue.decode (lines 1362-1372), reached by deserialize('key-value'):
\* obj[pair[0]] = pair[1] for each piece of the string, in turn.
decode(str, options) ==
    LET pairs == SplitBy(str, Eol(options))
        pair == [i \in DOMAIN pairs |-> SplitBy(pairs[i], Separator(options))]
        last(key) == CHOOSE i \in DOMAIN pairs :
                        /\ pair[i][1] = key
                        /\ \A j \in DOMAIN pairs : pair[j][1] = key => j <= i
    IN  [key \in {pair[i][1] : i \in DOMAIN pairs} |->
            IF Len(pair[last(key)]) > 1 THEN StringValue(pair[last(key)][2]) ELSE NoValue]

MaxParts == 3

\* The pieces a template is made of: a text, or a placeholder for a key.
Parts ==
    { [hole |-> FALSE, text |-> <<"x">>],
      [hole |-> TRUE, text |-> <<"a">>],
      [hole |-> TRUE, text |-> <<"b">>] }

Shapes == UNION { [1..n -> Parts] : n \in 0..MaxParts }

\* "... {} ..." and "... {key} ..." of a shape
Unnamed(shape) ==
    Concat([i \in DOMAIN shape |-> IF shape[i].hole THEN <<"{", "}">> ELSE shape[i].text])

Named(shape) ==
    Concat([i \in DOMAIN shape |->
              IF shape[i].hole THEN <<"{">> \o shape[i].text \o <<"}">> ELSE shape[i].text])

FormatValues == { StringValue(<<>>), StringValue(<<"v">>), NumberValue(0), NumberValue(7) }

\* The objects that are serialized: up to two properties.
PropertyValues == { StringValue(<<>>), StringValue(<<"v">>), NumberValue(1) }

Objects ==
    { <<>> }
    \cup { <<[name |-> name, value |-> value]>> :
             name \in {<<"k">>, <<"m">>}, value \in PropertyValues }
    \cup { <<[name |-> <<"k">>, value |-> v], [name |-> <<"m">>, value |-> w]>> :
             v \in PropertyValues, w \in PropertyValues }
    \cup { <<[name |-> <<"m">>, value |-> v], [name |-> <<"k">>, value |-> w]>> :
             v \in PropertyValues, w \in PropertyValues }

Options ==
    { [separator |-> <<>>, eol |-> <<>>],
      [separator |-> <<":", " ">>, eol |-> <<"\n">>],
      [separator |-> <<":">>, eol |-> <<";">>] }

MaxNum == 3
MaxStep == 2
MaxTextLen == 4
MaxFileNameLen == 5

RangeArguments ==
    { <<n>> : n \in -MaxNum..MaxNum }
    \cup { <<from, to>> : from \in -MaxNum..MaxNum, to \in -MaxNum..MaxNum }
    \cup { <<from, to, step>> : from \in -MaxNum..MaxNum, to \in -MaxNum..MaxNum,
                                 step \in (-MaxStep..MaxStep) \ {0} }

\* The strings ltrim is applied to, and the file names component reads.
Texts == UNION { [1..n -> {"a", "b"}] : n \in 0..MaxTextLen }

FileNames == UNION { [1..n -> {"a", "b", "."}] : n \in 1..MaxFileNameLen }

PatchInit ==
    /\ pc = "patches"
    /\ __modules__ = <<>>
    /\ heap = <<>>
    /\ log_buffer = <<>>
    /\ delivered = <<>>
    /\ ticks = 0
    /\ executed = [f \in DOMAIN FS |-> 0]
    /\ global = <<>>
    /\ trace = <<>>
    /\ stack = <<>>

\* One patch is applied and what it gave is recorded.
Applied(record) ==
    /\ pc = "patches"
    /\ trace = <<>>
    /\ trace' = <<record>>
    /\ UNCHANGED <<pc, __modules__, heap, log_buffer, delivered, ticks, executed, global, stack>>

Range_(arguments) ==
    Applied([ op |-> "Number.range", arguments |-> arguments,
              result |-> NumberRange(arguments) ])

Ltrim(s, character) ==
    Applied([ op |-> "ltrim", s |-> s, character |-> character,
              result |-> ltrim(s, <<character>>) ])

Component(name) ==
    Applied([ op |-> "component", name |-> name,
              extension |-> component_extension(name),
              basename |-> component_basename(name) ])

\* The value each placeholder of a shape stands for, in their order.
RECURSIVE InOrder(_, _)
InOrder(shape, a_b) ==
    IF shape = <<>> THEN <<>>
    ELSE (IF Head(shape).hole
          THEN <<IF Head(shape).text = <<"a">> THEN a_b[1] ELSE a_b[2]>>
          ELSE <<>>)
         \o InOrder(Tail(shape), a_b)

\* str.format(v1, ..., vn) and, with the same values under the keys a and
\* b of an object, the named str.format(object).
Format(shape, a_b, all) ==
    LET object == Object(<< [name |-> <<"a">>, value |-> a_b[1]],
                            [name |-> <<"b">>, value |-> a_b[2]] >>)
    IN  Applied([ op |-> "format", shape |-> shape, all |-> all,
                  template |-> Unnamed(shape),
                  arguments |-> InOrder(shape, a_b),
                  result |-> format(Unnamed(shape), InOrder(shape, a_b), all),
                  named_template |-> Named(shape),
                  object |-> object,
                  named_result |-> format(Named(shape), <<object>>, all) ])

\* obj.serialize('key-value', options).deserialize('key-value', options)
Serialize(properties, options) ==
    Applied([ op |-> "key-value", properties |-> properties, options |-> options,
              serialized |-> encode(properties, options),
              result |-> decode(encode(properties, options), options) ])

PatchNext ==
    \/ \E arguments \in RangeArguments : Range_(arguments)
    \/ \E shape \in Shapes, a_b \in FormatValues \X FormatValues, all \in BOOLEAN :
          Format(shape, a_b, all)
    \/ \E properties \in Objects, options \in Options : Serialize(properties, options)
    \/ \E s \in Texts, character \in {"a", "b"} : Ltrim(s, character)
    \/ \E name \in FileNames : Component(name)

PatchSpec == PatchInit /\ [][PatchNext]_vars

(***************************************************************************)
(* require run one step at a time, so that a module body may itself call   *)
(* require: every call in progress is a frame of `stack`, the innermost    *)
(* last.  The search path holds package r as well.                         *)
(***************************************************************************)
MaxRequires == 2
MaxDepth == 8

\* What a call hands back to its caller: a Module object (by its place in
\* the registry), an exports object (by its place in the heap), or a value
\* that is neither.
NoRet == [kind |-> "", path |-> <<>>, ref |-> 0]
ModuleRet(kind, path) == [kind |-> kind, path |-> path, ref |-> 0]
ExportsRet(ref) == [kind |-> "exports", path |-> <<>>, ref |-> ref]

\* A call in progress: the function, the position in it, its arguments and
\* locals, the value its last callee returned, the error it is raising.
Frame(fn, at) ==
    [ fn |-> fn, at |-> at, id |-> <<>>, path |-> <<>>, terms |-> <<>>,
      file |-> 0, ref |-> 0, stmts |-> <<>>, ret |-> NoRet, error |-> NoError ]

Running(fn, at) ==
    /\ pc = "ready"
    /\ stack # <<>>
    /\ stack[Len(stack)].fn = fn
    /\ stack[Len(stack)].at = at

Top == stack[Len(stack)]

\* The innermost call moves on to `frame`.
Goto(frame) == stack' = [stack EXCEPT ![Len(stack)] = frame]

\* The innermost call moves on to `frame` and calls `callee`.
Invoke(frame, callee) ==
    /\ Len(stack) < MaxDepth
    /\ stack' = Append([stack EXCEPT ![Len(stack)] = frame], callee)

\* return ret: the innermost call ends and its caller holds the value.
Return(ret) ==
    /\ Len(stack) > 1
    /\ stack' = [SubSeq(stack, 1, Len(stack) - 1)
                    EXCEPT ![Len(stack) - 1] = [@ EXCEPT !.ret = ret]]

\* throw error
Raise(error) == Goto([Top EXCEPT !.at = "raise", !.error = error])

\* The try block of Module.eval (lines 2282-2286) is around the run of the
\* body, and no other function of the loader has one.
Catches_Never(frame) == FALSE

Catches(frame) ==
    frame.fn = "eval" /\ frame.at = "body"

\* self.submodules[key], by its place in the registry, for the Module
\* object at path.  First the variant that gives self back.
SubmoduleAt_Self(path, key) == path

SubmoduleAt(path, key) ==
    path \o <<key>>

\* The Module object at path, with its exports set to the object at ref.
RECURSIVE WithExports(_, _, _)
WithExports(self, path, ref) ==
    IF path = <<>> THEN [self EXCEPT !.exports = ref]
    ELSE [self EXCEPT !.submodules[Head(path)] = WithExports(@, Tail(path), ref)]

Here(path) == ModuleAt(__modules__[Head(path)], Tail(path))

Assign(path, ref) ==
    __modules__' = [__modules__ EXCEPT ![Head(path)] = WithExports(@, Tail(path), ref)]

\* The outermost call is over: what it did is written down.
Done(outcome, target, value, error) ==
    /\ Len(stack) = 1
    /\ stack' = <<>>
    /\ trace' = Append(trace, [ op |-> "require", id |-> stack[1].id, target |-> target,
                                outcome |-> outcome, value |-> value, error |-> error,
                                phase |-> pc, self |-> <<>>, result |-> <<>> ])

r_id == <<"r">>
r_needs == <<"r", "/", "n", "e", "e", "d", "s">>
r_uses == <<"r", "/", "u", "s", "e", "s">>
r_wants == <<"r", "/", "w", "a", "n", "t", "s">>
r_chain == <<"r", "/", "c", "h", "a", "i", "n">>
r_needs_q == <<"r", "/", "n", "e", "e", "d", "s", "/", "q">>
StepIds ==
    { r_id, r_needs, r_uses, r_wants, r_chain, r_needs_q,
      id_p, id_p_bad, id_p_s_leaf, id_p_s_q, id_q, id_none }

\* The state start-up leaves: the settings message written, the registry
\* scanned, nothing loaded.
StepInit ==
    /\ pc = "ready"
    /\ __modules__ = load_modules(more_package_directories, <<>>)
    /\ heap = <<>>
    /\ \E project_specific \in BOOLEAN :
          /\ log_buffer = <<LoadingSettings(project_specific)>>
          /\ delivered = log_buffer
    /\ ticks = 0
    /\ executed = [f \in DOMAIN FS |-> 0]
    /\ global = <<>>
    /\ trace = <<>>
    /\ stack = <<>>

\* A script calls require(module_id).
StartRequire(module_id) ==
    /\ pc = "ready"
    /\ stack = <<>>
    /\ Len(trace) < MaxRequires
    /\ stack' = <<[Frame("require", "split") EXCEPT !.id = module_id]>>
    /\ UNCHANGED <<pc, __modules__, heap, log_buffer, delivered, ticks, executed, global, trace>>

\* require, lines 2246-2255: the first term names the package.
RequireSplit ==
    /\ Running("require", "split")
    /\ LET terms == Split(Top.id, "/")
           module == Head(terms)
       IN  IF module \in DOMAIN __modules__
           THEN IF Tail(terms) # <<>>
                THEN Invoke([Top EXCEPT !.at = "found"],
                            [Frame("get_submodule", "shift")
                                EXCEPT !.path = <<module>>, !.terms = Tail(terms)])
                ELSE Invoke([Top EXCEPT !.at = "loaded"],
                            [Frame("load", "start") EXCEPT !.path = <<module>>])
           ELSE Raise(NoPackage(module, Top.id))
    /\ UNCHANGED <<pc, __modules__, heap, log_buffer, delivered, ticks, executed, global, trace>>

\* require, line 2250: .load() on what get_submodule returned.
RequireFound ==
    /\ Running("require", "found")
    /\ IF Top.ret.kind = "module"
       THEN Invoke([Top EXCEPT !.at = "loaded"],
                   [Frame("load", "start") EXCEPT !.path = Top.ret.path])
       ELSE Raise(TypeError)
    /\ UNCHANGED <<pc, __modules__, heap, log_buffer, delivered, ticks, executed, global, trace>>

\* require, lines 2250 and 2252: return the .exports of what load returned,
\* to the body that called require or to the script.
RequireReturn ==
    /\ Running("require", "loaded")
    /\ LET value == Here(Top.ret.path).exports
       IN  IF Len(stack) = 1
           THEN Done("return", Top.ret.path, value, NoError)
           ELSE Return(ExportsRet(value)) /\ UNCHANGED trace
    /\ UNCHANGED <<pc, __modules__, heap, log_buffer, delivered, ticks, executed, global>>

\* Module.get_submodule, lines 2304-2309.
GetSubmoduleShift ==
    /\ Running("get_submodule", "shift")
    /\ LET key == Head(Top.terms)
           kind == LookupKind(Here(Top.path).submodules, key)
       IN  IF Tail(Top.terms) # <<>>
           THEN IF kind = "module"
                THEN Invoke([Top EXCEPT !.at = "return"],
                            [Frame("get_submodule", "shift")
                                EXCEPT !.path = SubmoduleAt(Top.path, key),
                                       !.terms = Tail(Top.terms)])
                ELSE Raise(TypeError)
           ELSE Return(ModuleRet(kind, SubmoduleAt(Top.path, key)))
    /\ UNCHANGED <<pc, __modules__, heap, log_buffer, delivered, ticks, executed, global, trace>>

\* Module.get_submodule, line 2306: return what the submodule returned.
GetSubmoduleReturn ==
    /\ Running("get_submodule", "return")
    /\ Return(Top.ret)
    /\ UNCHANGED <<pc, __modules__, heap, log_buffer, delivered, ticks, executed, global, trace>>

\* Module.load, lines 2332-2335: a package loads its index submodule,
\* whatever self.submodules['index'] is; any other module runs its file.
LoadStart ==
    /\ Running("load", "start")
    /\ LET self == Here(Top.path)
       IN  IF self.packaged
           THEN IF LookupKind(self.submodules, s_index) = "module"
                THEN Invoke([Top EXCEPT !.at = "index"],
                            [Frame("load", "start")
                                EXCEPT !.path = SubmoduleAt(Top.path, s_index)])
                ELSE Raise(TypeError)
           ELSE Invoke([Top EXCEPT !.at = "eval"],
                       [Frame("eval", "start") EXCEPT !.path = Top.path, !.file = self.uri])
    /\ UNCHANGED <<pc, __modules__, heap, log_buffer, delivered, ticks, executed, global, trace>>

\* Module.load, lines 2333 and 2337: self.exports = <index>.load().exports
LoadIndexed ==
    /\ Running("load", "index")
    /\ Assign(Top.path, Here(Top.ret.path).exports)
    /\ Return(ModuleRet("module", Top.path))
    /\ UNCHANGED <<pc, heap, log_buffer, delivered, ticks, executed, global, trace>>

\* Module.load, lines 2335 and 2337: self.exports = self.eval(self.uri)
LoadEvaluated ==
    /\ Running("load", "eval")
    /\ Assign(Top.path, Top.ret.ref)
    /\ Return(ModuleRet("module", Top.path))
    /\ UNCHANGED <<pc, heap, log_buffer, delivered, ticks, executed, global, trace>>

\* Module.eval, lines 2276-2283: a fresh exports object, and the body starts.
EvalStart ==
    /\ Running("eval", "start")
    /\ heap' = Append(heap, <<>>)
    /\ executed' = [executed EXCEPT ![Top.file] = @ + 1]
    /\ Goto([Top EXCEPT !.at = "body", !.ref = Len(heap) + 1, !.stmts = Body(Top.file)])
    /\ UNCHANGED <<pc, __modules__, log_buffer, delivered, ticks, global, trace>>

Statement(op) ==
    /\ Running("eval", "body")
    /\ Top.stmts # <<>>
    /\ Head(Top.stmts).op = op

\* exports.key = val
EvalSet ==
    /\ Statement("set")
    /\ heap' = [heap EXCEPT ![Top.ref] = Put(@, Head(Top.stmts).key, Head(Top.stmts).val)]
    /\ Goto([Top EXCEPT !.stmts = Tail(@)])
    /\ UNCHANGED <<pc, __modules__, log_buffer, delivered, ticks, executed, global, trace>>

\* exports.key = ++counter
EvalTick ==
    /\ Statement("tick")
    /\ ticks' = ticks + 1
    /\ heap' = [heap EXCEPT ![Top.ref] = Put(@, Head(Top.stmts).key, Num(ticks + 1))]
    /\ Goto([Top EXCEPT !.stmts = Tail(@)])
    /\ UNCHANGED <<pc, __modules__, log_buffer, delivered, executed, global, trace>>

\* throw err, inside the try block of eval
EvalThrow ==
    /\ Statement("throw")
    /\ Goto([Top EXCEPT !.at = "catch", !.error = Head(Top.stmts).err])
    /\ UNCHANGED <<pc, __modules__, heap, log_buffer, delivered, ticks, executed, global, trace>>

\* require(module_id), called by the body
EvalRequire ==
    /\ Statement("require")
    /\ Invoke([Top EXCEPT !.stmts = Tail(@)],
              [Frame("require", "split") EXCEPT !.id = Head(Top.stmts).key])
    /\ UNCHANGED <<pc, __modules__, heap, log_buffer, delivered, ticks, executed, global, trace>>

\* Module.eval, lines 2284-2286: the catch block.
EvalCatch ==
    /\ Running("eval", "catch")
    /\ log_buffer' = Append(log_buffer, CouldNotFullyLoad(Here(Top.path), Top.error))
    /\ Goto([Top EXCEPT !.at = "return", !.error = NoError])
    /\ UNCHANGED <<pc, __modules__, heap, delivered, ticks, executed, global, trace>>

\* Module.eval, line 2287: return exports, the body over or cut short.
EvalReturn ==
    /\ \/ Running("eval", "body") /\ Top.stmts = <<>>
       \/ Running("eval", "return")
    /\ Return(ExportsRet(Top.ref))
    /\ UNCHANGED <<pc, __modules__, heap, log_buffer, delivered, ticks, executed, global, trace>>

\* An error leaves the innermost call: its caller catches it or raises it in
\* turn, and an error that leaves the outermost call reaches the script.
Unwind ==
    /\ pc = "ready"
    /\ stack # <<>>
    /\ Top.at = "raise"
    /\ IF Len(stack) = 1
       THEN Done("throw", <<>>, Undefined, Top.error)
       ELSE /\ LET caller == stack[Len(stack) - 1]
                IN  stack' = [SubSeq(stack, 1, Len(stack) - 1)
                                EXCEPT ![Len(stack) - 1] =
                                    [caller EXCEPT !.at = IF Catches(caller) THEN "catch"
                                                          ELSE "raise",
                                                   !.error = Top.error]]
            /\ UNCHANGED trace
    /\ UNCHANGED <<pc, __modules__, heap, log_buffer, delivered, ticks, executed, global>>

Step ==
    \/ RequireSplit
    \/ RequireFound
    \/ RequireReturn
    \/ GetSubmoduleShift
    \/ GetSubmoduleReturn
    \/ LoadStart
    \/ LoadIndexed
    \/ LoadEvaluated
    \/ EvalStart
    \/ EvalSet
    \/ EvalTick
    \/ EvalThrow
    \/ EvalRequire
    \/ EvalCatch
    \/ EvalReturn
    \/ Unwind

StepNext ==
    \/ \E module_id \in StepIds : StartRequire(module_id)
    \/ Step

StepSpec == StepInit /\ [][StepNext]_vars

\* A call in progress is not left half done: the interpreter runs on.
FairStepSpec == StepSpec /\ WF_vars(Step)

(***************************************************************************)
(* What the properties below speak of.                                     *)
(***************************************************************************)
\* The loaders under a Module object, each by the keys that lead to it.
RECURSIVE PathsOf(_)
PathsOf(self) ==
    {<<>>} \cup UNION { { <<key>> \o path : path \in PathsOf(self.submodules[key]) } :
                        key \in DOMAIN self.submodules }

\* Every loader of the registry.
Loaders(registry) ==
    UNION { { <<id>> \o path : path \in PathsOf(registry[id]) } : id \in DOMAIN registry }

LoaderAt(registry, path) == ModuleAt(registry[Head(path)], Tail(path))

\* Whether following terms from self stays within the submodule tree.
RECURSIVE PathExists(_, _)
PathExists(self, terms) ==
    \/ terms = <<>>
    \/ /\ Head(terms) \in DOMAIN self.submodules
       /\ PathExists(self.submodules[Head(terms)], Tail(terms))

\* The source file whose body a load of this loader runs: its own, or for a
\* package the one its index submodule runs; 0 when there is none.
RECURSIVE BodyFile(_)
BodyFile(self) ==
    IF ~self.packaged THEN self.uri
    ELSE IF s_index \in DOMAIN self.submodules THEN BodyFile(self.submodules[s_index])
    ELSE 0

\* The source file a call ran, 0 when it resolved to no loader with a body.
Ran(c) == IF c.target = <<>> THEN 0 ELSE BodyFile(LoaderAt(__modules__, c.target))

\* A call that ran a body that raises.
RanFaulty(c) == Ran(c) # 0 /\ Raises(Ran(c))

(***************************************************************************)
(* C1.  Loading is idempotent: over any calls of require and load that     *)
(* resolve to the same module, the body of a source file runs at most      *)
(* once, and all those calls return the same exports reference.            *)
(***************************************************************************)
C1_LoadIdempotent ==
    /\ \A f \in DOMAIN FS : executed[f] <= 1
    /\ \A i, j \in DOMAIN trace :
          ( /\ trace[i].outcome = "return" /\ trace[j].outcome = "return"
            /\ trace[i].target = trace[j].target )
          => trace[i].value = trace[j].value

(***************************************************************************)
(* C2.  Loader state is monotonic: once a loader holds exports (it is      *)
(* Loaded or Failed), no later step changes the exports it holds.          *)
(***************************************************************************)
C2_LoaderStateMonotonic ==
    [][ \A path \in Loaders(__modules__) :
            LoaderAt(__modules__, path).exports # Undefined
            => LoaderAt(__modules__', path).exports = LoaderAt(__modules__, path).exports
      ]_vars

(***************************************************************************)
(* C3.  Missing nested module: when the first term names a package of the  *)
(* registry and the remaining terms leave its submodule tree, require      *)
(* raises an Error (not a TypeError) whose message holds the identifier    *)
(* as it was requested.                                                    *)
(***************************************************************************)
C3_MissingSubmoduleNamesFullId ==
    \A i \in DOMAIN trace :
        LET c == trace[i]
            terms == Split(c.id, "/")
        IN  ( /\ c.op = "require"
              /\ Head(terms) \in DOMAIN __modules__
              /\ ~PathExists(__modules__[Head(terms)], Tail(terms)) )
            => /\ c.outcome = "throw"
               /\ c.error.name = "Error"
               /\ Contains(c.error.message, c.id)

(***************************************************************************)
(* C4.  Missing top-level module: when the first term of the identifier is *)
(* no key of the registry, require raises the "No package named" Error and *)
(* its message holds the whole identifier, not the first term alone.       *)
(***************************************************************************)
C4_MissingPackageNamesFullId ==
    \A i \in DOMAIN trace :
        LET c == trace[i]
        IN  ( /\ c.op \in {"require", "extract"}
              /\ Head(Split(c.id, "/")) \notin DOMAIN __modules__ )
            => /\ c.outcome = "throw"
               /\ c.error.name = "Error"
               /\ IndexOf(c.error.message, NoPackageNamed) = 0
               /\ Contains(c.error.message, c.id)

\* require("nonexistent/x") was called and raised.
C4_Witness ==
    \E i \in DOMAIN trace :
        /\ trace[i].op = "require" /\ trace[i].id = id_none_x
        /\ trace[i].outcome = "throw"

(***************************************************************************)
(* C5.  Faulty module isolation: a call that runs a body that raises       *)
(* returns normally with an exports object, and a later require of the     *)
(* sibling `good` returns good's own exports: ok is true, and nothing of   *)
(* the faulty module is in it.                                             *)
(***************************************************************************)
C5_FaultyModuleIsolated ==
    \A i \in DOMAIN trace :
        /\ RanFaulty(trace[i])
           => /\ trace[i].outcome = "return"
              /\ trace[i].error = NoError
              /\ trace[i].value \in DOMAIN heap
        /\ \A j \in DOMAIN trace :
              ( /\ i < j /\ RanFaulty(trace[i])
                /\ trace[j].op = "require" /\ trace[j].id = id_p_good )
              => /\ trace[j].outcome = "return"
                 /\ trace[j].value \in DOMAIN heap
                 /\ heap[trace[j].value] = [k \in {k_ok} |-> JSTrue]

\* require("p/bad") ran the faulty body, and require("p/good") came after.
C5_Witness ==
    \E i, j \in DOMAIN trace :
        /\ i < j
        /\ trace[i].op = "require" /\ trace[i].id = id_p_bad
        /\ executed[7] = 1
        /\ trace[j].op = "require" /\ trace[j].id = id_p_good

(***************************************************************************)
(* C6.  As claimed: the exports a call yields for a module whose body      *)
(* raises hold no symbol.                                                  *)
(***************************************************************************)
C6_FailedExportsEmpty ==
    \A i \in DOMAIN trace :
        (RanFaulty(trace[i]) /\ trace[i].outcome = "return")
        => heap[trace[i].value] = <<>>

\* The statements of a body that run before its first throw.
BeforeRaise(file) ==
    { i \in DOMAIN Body(file) :
        \A j \in DOMAIN Body(file) : Body(file)[j].op = "throw" => i < j }

(***************************************************************************)
(* C6, amended.  The exports a call yields for a module whose body raises  *)
(* hold exactly the symbols the body assigned before it raised, with the   *)
(* values it gave them; the loader stores that same object.                *)
(***************************************************************************)
C6_FailedExportsPartial ==
    \A i \in DOMAIN trace :
        LET c == trace[i]
            body == Body(Ran(c))
        IN  (RanFaulty(c) /\ c.outcome = "return")
            => /\ DOMAIN heap[c.value] = { body[k].key : k \in BeforeRaise(Ran(c)) }
               /\ \A k \in BeforeRaise(Ran(c)) :
                     body[k].op = "set" => heap[c.value][body[k].key] = body[k].val
               /\ i = Len(trace) => LoaderAt(__modules__, c.target).exports = c.value

\* require("p/bad") returned exports that hold `partial`, set before the throw.
C6_Witness ==
    \E i \in DOMAIN trace :
        /\ trace[i].op = "require" /\ trace[i].id = id_p_bad
        /\ trace[i].outcome = "return"
        /\ k_partial \in DOMAIN heap[trace[i].value]

\* The messages of the log buffer that report a load failure of this file.
Failures(file) ==
    { k \in DOMAIN log_buffer : log_buffer[k].level = 3 /\ log_buffer[k].about = file }

(***************************************************************************)
(* C7.  Load-failure log count: exactly one failure message for each file  *)
(* whose body raises and that a call has run, naming its module id, and    *)
(* none for any other file.                                                *)
(***************************************************************************)
C7_OneFailureLoggedPerFaultyModule ==
    \A f \in DOMAIN FS :
        IF Raises(f) /\ (\E i \in DOMAIN trace : Ran(trace[i]) = f)
        THEN /\ Cardinality(Failures(f)) = 1
             /\ \A k \in Failures(f) : log_buffer[k].id = ModuleId(f)
        ELSE Failures(f) = {}

\* What the caller of load() has in hand of how the load went.
Observed(c) ==
    [ outcome |-> c.outcome, error |-> c.error,
      exports |-> IF c.value \in DOMAIN heap THEN heap[c.value] ELSE <<>> ]

(***************************************************************************)
(* C8.  As claimed: load() reports failure as a value, so what load()      *)
(* hands back for a module whose body raised differs from what it hands    *)
(* back for a module that loaded and exports nothing.                      *)
(***************************************************************************)
C8_LoadReportsFailure ==
    \A i, j \in DOMAIN trace :
        ( /\ trace[i].op = "load" /\ RanFaulty(trace[i])
          /\ trace[j].op = "load" /\ ~RanFaulty(trace[j])
          /\ trace[j].outcome = "return" /\ heap[trace[j].value] = <<>> )
        => Observed(trace[i]) # Observed(trace[j])

(***************************************************************************)
(* C8, amended.  When a module's body raises, load() returns normally,     *)
(* with no error indicator: it hands back the loader, whose exports are an *)
(* object of the heap, and the failure is reported only as a message in    *)
(* log_buffer that names the module id and carries the error.              *)
(***************************************************************************)
C8_LoadReturnsLoaderAndLogs ==
    \A i \in DOMAIN trace :
        LET c == trace[i]
        IN  (c.op = "load" /\ RanFaulty(c))
            => /\ c.outcome = "return"
               /\ c.error = NoError
               /\ c.value \in DOMAIN heap
               /\ i = Len(trace) => LoaderAt(__modules__, c.target).exports = c.value
               /\ \E k \in Failures(Ran(c)) :
                     /\ log_buffer[k].id = ModuleId(Ran(c))
                     /\ log_buffer[k].error # NoError

\* load() was called on the loader of p/bad, whose body raises.
C8_Witness ==
    \E i \in DOMAIN trace :
        /\ trace[i].op = "load" /\ trace[i].target = <<<<"p">>, <<"b", "a", "d">>>>
        /\ executed[7] >= 1

(***************************************************************************)
(* C9.  Package re-export: require of a package with an index submodule    *)
(* yields the same exports value as require of its index, and a package    *)
(* loader that holds exports holds those its index child holds.            *)
(***************************************************************************)
C9_PackageReexport ==
    /\ \A i, j \in DOMAIN trace :
          ( /\ trace[i].op = "require" /\ trace[i].outcome = "return"
            /\ trace[j].op = "require" /\ trace[j].outcome = "return"
            /\ trace[i].target # <<>>
            /\ trace[j].target = trace[i].target \o <<s_index>> )
          => heap[trace[i].value] = heap[trace[j].value]
    /\ \A path \in Loaders(__modules__) :
          LET self == LoaderAt(__modules__, path)
          IN  ( /\ self.packaged /\ s_index \in DOMAIN self.submodules
                /\ self.exports # Undefined )
              => self.exports = self.submodules[s_index].exports

(***************************************************************************)
(* C10.  Every load failure is forwarded to the logger: a failure message  *)
(* put in the log buffer, before or after the buffer was flushed, is       *)
(* eventually handed to the logger.                                        *)
(***************************************************************************)
C10_FailureForwarded ==
    \A k \in 1..(MaxCalls + 1) :
        (k \in DOMAIN log_buffer /\ log_buffer[k].level = 3)
        ~> (k \in DOMAIN delivered /\ delivered[k] = log_buffer[k])

\* Once the start-up script has flushed the buffer, no step hands anything
\* to the logger any more: a message pushed from then on stays undelivered
\* however many calls follow.
C10_NothingDeliveredAfterFlush ==
    [][pc = "ready" => (pc' = "ready" /\ delivered' = delivered)]_vars

(***************************************************************************)
(* C11.  Log buffering: every message pushed to log_buffer before the      *)
(* logger is constructed is handed to the logger exactly once when it is   *)
(* constructed, in the order of issue: once the flush has run, what was    *)
(* delivered is the buffer as it stood before the flush, message for       *)
(* message, and nothing is delivered before the flush.                     *)
(***************************************************************************)
\* The messages pushed before the flush: the one the settings push and one
\* for every call made before the flush that ran a body that raises.
PushedBeforeFlush ==
    1 + Cardinality({i \in DOMAIN trace : trace[i].phase = "logging" /\ RanFaulty(trace[i])})

C11_BufferedDeliveredOnceInOrder ==
    IF pc = "ready"
    THEN delivered = SubSeq(log_buffer, 1, PushedBeforeFlush)
    ELSE delivered = <<>>

\* Two modules failed before the flush: three messages were buffered.
C11_Witness ==
    /\ pc = "ready"
    /\ Len(delivered) = 3
    /\ delivered[2].level = 3

\* Under the fairness of the start-up script each message buffered before
\* the flush does reach the logger, at the place it has in the buffer.
C11_BufferedEventuallyDelivered ==
    \A n \in 1..(MaxCalls + 1) :
        (pc # "ready" /\ Len(log_buffer) >= n)
        ~> (Len(delivered) >= n /\ delivered[n] = log_buffer[n])

(***************************************************************************)
(* C12.  Lazy loading: load_modules builds the whole tree of loaders and   *)
(* runs no module body; a body runs only through a call of require,        *)
(* extract or load that resolves to its module, or to a package whose      *)
(* index it is: each file has run once per such call and not otherwise,    *)
(* and a loader holds exports only after a call.                           *)
(***************************************************************************)
\* Every loader the search path holds, by its path.
ScannedLoaders ==
    { <<n_p>>, <<n_p, s_index>>, <<n_p, <<"g", "o", "o", "d">> >>,
      <<n_p, <<"b", "a", "d">> >>, <<n_p, <<"l", "i", "n", "k">> >>,
      <<n_p, n_s>>, <<n_p, n_s, <<"l", "e", "a", "f">> >>,
      <<n_p, n_s, s_lib>>, <<n_p, n_s, s_lib, <<"i", "n", "n", "e", "r">> >>,
      <<n_p, n_s, n_dup>>,
      <<n_q>>, <<n_q, s_index>>, <<n_q, <<"e", "m", "p", "t", "y">> >>,
      <<id_solo>> }

RECURSIVE Shape(_)
Shape(self) ==
    [ id |-> self.id, uri |-> self.uri, packaged |-> self.packaged,
      submodules |-> [key \in DOMAIN self.submodules |-> Shape(self.submodules[key])] ]

Tree(registry) == [id \in DOMAIN registry |-> Shape(registry[id])]

C13_TreeReadOnlyAfterStartup ==
    [][ (pc \in {"logging", "ready"})
        => Tree(__modules__') = Tree(__modules__)
      ]_vars

\* A package was loaded, a call raised and the loaders were asked for
\* their subpackages: the tree is the one start-up built.
C13_Witness ==
    /\ Len(trace) = 2
    /\ trace[1].op = "require" /\ trace[1].target = <<n_p>> /\ trace[1].outcome = "return"
    /\ trace[2].op = "get_subpackages" /\ trace[2].self = <<n_p>>
    /\ DOMAIN __modules__[n_p].submodules = DOMAIN Module(3, TRUE).submodules
    /\ Cardinality(DOMAIN __modules__[n_p].submodules) > 1

(***************************************************************************)
(* C14.  For a package directory the submodules are looked for in its      *)
(* `lib` subdirectory and never in the directory itself, for every loader  *)
(* that is a package, in the registry or nested under another: the keys of *)
(* its submodules are the ids of the valid entries of its `lib`.           *)
(***************************************************************************)
\* The ids of the valid entries of a folder; none when there is no folder.
IdsIn(folder) ==
    IF folder = 0 THEN {}
    ELSE {ModuleId(GetFiles(folder)[i]) : i \in DOMAIN GetFiles(folder)}

C14_EveryPackageScansLib ==
    \A path \in Loaders(__modules__) :
        LET self == LoaderAt(__modules__, path)
        IN  self.packaged => DOMAIN self.submodules = IdsIn(At(s_lib, self.uri))

\* C14, amended.  A package of the registry has its `lib` subdirectory
\* scanned and never the directory itself, so that no entry next to `lib`
\* becomes a submodule; a directory nested in a package is scanned itself.
C14_RegistryPackagesScanLib ==
    \A path \in Loaders(__modules__) :
        LET self == LoaderAt(__modules__, path)
        IN  self.packaged =>
               DOMAIN self.submodules =
                  IF Len(path) = 1 THEN IdsIn(At(s_lib, self.uri)) ELSE IdsIn(self.uri)

\* Package p has a folder `test` next to its `lib` that is no submodule of
\* it; the folder s nested in p has its own entries, `lib` among them, as
\* its submodules.
C14_Witness ==
    /\ n_p \in DOMAIN __modules__
    /\ At(n_test, __modules__[n_p].uri) # 0
    /\ n_test \notin DOMAIN __modules__[n_p].submodules
    /\ s_lib \notin DOMAIN __modules__[n_p].submodules
    /\ s_lib \in DOMAIN __modules__[n_p].submodules[n_s].submodules

(***************************************************************************)
(* C15.  Scanner validity: an entry is accepted if and only if it is a     *)
(* directory or a file whose name ends with ".jsx"; every other entry,     *)
(* whatever its name and however long, is left out.                        *)
(***************************************************************************)
\* The last Len(suffix) characters of s are suffix.
HasSuffix(s, suffix) ==
    /\ Len(s) >= Len(suffix)
    /\ SubSeq(s, Len(s) - Len(suffix) + 1, Len(s)) = suffix

C15_AcceptedIffFolderOrJsx ==
    \A i \in DOMAIN trace :
        trace[i].op = "_is_valid_module"
        => (trace[i].result <=> (trace[i].is_folder \/ HasSuffix(trace[i].name, s_jsx)))

(***************************************************************************)
(* C16.  Alias resolution comes before classification: every scanned       *)
(* entry that is an alias, in a search folder or at any depth under a      *)
(* package, is resolved before it is classified, so that no loader is      *)
(* bound to an alias and an alias of a directory is a package.             *)
(***************************************************************************)
C16_AliasesResolvedEverywhere ==
    \A path \in Loaders(__modules__) :
        LET self == LoaderAt(__modules__, path)
        IN  /\ ~FS[self.uri].alias
            /\ self.packaged = IsFolder(self.uri)

\* The aliases met in the search folders are resolved: an entry of the
\* registry is bound to what the alias names.
C16_RegistryAliasesResolved ==
    \A id \in DOMAIN __modules__ :
        /\ ~FS[__modules__[id].uri].alias
        /\ __modules__[id].packaged = IsFolder(__modules__[id].uri)

(***************************************************************************)
(* C17.  Search-path collisions: when two entries of the search folders    *)
(* give the same module id, start-up goes on without an error and the      *)
(* registry binds the id to the loader of the entry visited last, the      *)
(* folders taken in the configured order and the entries of each in        *)
(* listing order.                                                          *)
(***************************************************************************)
\* The entries visited, in order, each alias replaced by what it names.
Visited ==
    [i \in DOMAIN Packages(package_directories) |->
        LET f == Packages(package_directories)[i]
        IN  IF FS[f].alias THEN Resolve(f) ELSE f]

C17_LastVisitedWins ==
    pc \notin {"settings", "modules"} =>
        /\ DOMAIN __modules__ = {ModuleId(Visited[i]) : i \in DOMAIN Visited}
        /\ \A i \in DOMAIN Visited :
              (\A j \in DOMAIN Visited : j > i => ModuleId(Visited[j]) # ModuleId(Visited[i]))
              => __modules__[ModuleId(Visited[i])].uri = Visited[i]

\* solo.jsx is met in both search folders; start-up went through and the
\* registry holds the one of the second folder.
C17_Witness ==
    /\ pc = "logging"
    /\ ModuleId(14) = ModuleId(26)
    /\ FS[14].parent # FS[26].parent
    /\ \E i, j \in DOMAIN Visited : i < j /\ Visited[i] = 14 /\ Visited[j] = 26
    /\ __modules__[ModuleId(14)].uri = 26

(***************************************************************************)
(* C18.  Sibling id collisions: when two entries of one scanned directory  *)
(* give the same id, as dup.jsx and a directory dup do, no error is raised *)
(* and the submodules of the loader hold one loader for that id, that of   *)
(* the entry listed later.                                                 *)
(***************************************************************************)
\* The folder whose entries became the submodules of the loader at path.
ScannedFolder(path) ==
    LET self == LoaderAt(__modules__, path)
    IN  IF Len(path) = 1 THEN At(s_lib, self.uri) ELSE self.uri

C18_LaterSiblingWins ==
    \A path \in Loaders(__modules__) :
        LET self == LoaderAt(__modules__, path)
            files == GetFiles(ScannedFolder(path))
        IN  self.packaged =>
              \A i \in DOMAIN files :
                  /\ ModuleId(files[i]) \in DOMAIN self.submodules
                  /\ (\A j \in DOMAIN files : j > i => ModuleId(files[j]) # ModuleId(files[i]))
                     => self.submodules[ModuleId(files[i])].uri = files[i]

\* In p/lib/s the file dup.jsx is listed before the folder dup: the loader
\* of s holds the folder under the id dup.
C18_Witness ==
    /\ pc = "logging"
    /\ FS[22].parent = FS[23].parent
    /\ ModuleId(22) = ModuleId(23)
    /\ LoaderAt(__modules__, <<n_p, n_s, n_dup>>).uri = 23
    /\ LoaderAt(__modules__, <<n_p, n_s, n_dup>>).packaged

(***************************************************************************)
(* C19.  Path equivalence: for every identifier a/b/c whose terms all      *)
(* exist, require("a/b/c") returns what load() called on the loader found  *)
(* under key c of the submodules of key b of the registry entry a returns  *)
(* (its exports), and leaves the same state behind.                        *)
(***************************************************************************)
RECURSIVE Join(_, _)
Join(terms, sep) ==
    IF Len(terms) = 1 THEN Head(terms)
    ELSE Head(terms) \o <<sep>> \o Join(Tail(terms), sep)

C20_ExtractCopiesOwnKeysOnly ==
    /\ \A name \in DOMAIN global :
          \E i \in DOMAIN trace :
              /\ trace[i].op = "extract" /\ trace[i].outcome = "return"
              /\ name \in DOMAIN heap[trace[i].value]
    /\ \A i \in DOMAIN trace :
          (trace[i].op = "extract" /\ trace[i].outcome = "return")
          => \A k \in DOMAIN heap[trace[i].value] : k \in DOMAIN global

\* The keys of the exports are copied, with the values they have.
C20_OwnKeysCopied ==
    \A i \in DOMAIN trace :
        (trace[i].op = "extract" /\ trace[i].outcome = "return")
        => \A k \in DOMAIN heap[trace[i].value] :
              /\ k \in DOMAIN global
              /\ i = Len(trace) => global[k] = heap[trace[i].value][k]

(***************************************************************************)
(* C21.  Test discovery: get_tests() of a package returns exactly the      *)
(* files directly under <package location>/test whose names match *.specs  *)
(* when that folder exists, and an empty sequence when it does not; it     *)
(* returns nothing from the `lib` folder of the package.  For p, with      *)
(* test/sample.specs and test/notes.txt, that is sample.specs alone.       *)
(***************************************************************************)
\* The elements of a sequence.
Range(seq) == {seq[i] : i \in DOMAIN seq}

C22_LeafHasNoSubmodules ==
    \A path \in Loaders(__modules__) :
        LET self == LoaderAt(__modules__, path)
        IN  ~self.packaged => DOMAIN self.submodules = {}

\* A loader bound to a file was loaded and has no submodules, next to a
\* package that has some.
C22_Witness ==
    /\ Len(trace) = 1
    /\ trace[1].op = "require" /\ trace[1].target = <<n_p, <<"g", "o", "o", "d">> >>
    /\ ~LoaderAt(__modules__, trace[1].target).packaged
    /\ LoaderAt(__modules__, trace[1].target).exports # Undefined
    /\ DOMAIN LoaderAt(__modules__, trace[1].target).submodules = {}
    /\ DOMAIN __modules__[n_p].submodules # {}

(***************************************************************************)
(* C23.  Number.range works like the range() of Python: for from, to and   *)
(* a step other than 0, Number.range(from, to, step) is the progression    *)
(* from, from+step, from+2*step, ... of the values that come strictly      *)
(* before `to` in the direction of the step, empty when there is none;     *)
(* Number.range(from, to) steps by 1 and Number.range(n) is                *)
(* Number.range(0, n, 1).                                                  *)
(***************************************************************************)
RECURSIVE PythonRange(_, _, _)
PythonRange(from, to, step) ==
    IF (step > 0 /\ from < to) \/ (step < 0 /\ from > to)
    THEN <<from>> \o PythonRange(from + step, to, step)
    ELSE <<>>

C23_RangeLikePython ==
    \A i \in DOMAIN trace :
        trace[i].op = "Number.range" =>
           LET a == trace[i].arguments
           IN  /\ Len(a) = 3 => trace[i].result = PythonRange(a[1], a[2], a[3])
               /\ Len(a) = 2 => trace[i].result = PythonRange(a[1], a[2], 1)
               /\ Len(a) = 1 => trace[i].result = NumberRange(<<0, a[1], 1>>)

\* What the code does agree on with range() of Python: the progressions
\* that start at 0, and those whose from and to lie on one side of 0 and
\* are stepped through away from 0.
C23_RangeFromZero ==
    \A i \in DOMAIN trace :
        trace[i].op = "Number.range" =>
           LET a == trace[i].arguments
               from == IF Len(a) = 1 THEN 0 ELSE a[1]
               to == IF Len(a) = 1 THEN a[1] ELSE a[2]
               step == IF Len(a) = 3 THEN a[3] ELSE 1
           IN  ( \/ (from = 0 /\ to * step >= 0)
                 \/ (from >= 0 /\ to >= from /\ step > 0)
                 \/ (from <= 0 /\ to <= from /\ step < 0) )
               => trace[i].result = PythonRange(from, to, step)

(***************************************************************************)
(* C25.  File.component splits the name of a file at its last ".": for a   *)
(* name with a "." in it the extension is what comes after the last ".",   *)
(* the basename what comes before it, and basename + "." + extension is    *)
(* the name; for a name without "." the extension is empty and the         *)
(* basename the whole name.                                                *)
(***************************************************************************)
\* The place of the last "." of a name, 0 when it has none.
LastDot(name) ==
    IF \E k \in DOMAIN name : name[k] = "."
    THEN CHOOSE k \in DOMAIN name :
            name[k] = "." /\ \A j \in DOMAIN name : name[j] = "." => j <= k
    ELSE 0

C25_ComponentSplitsAtLastDot ==
    \A i \in DOMAIN trace :
        trace[i].op = "component" =>
           LET name == trace[i].name
               k == LastDot(name)
           IN  IF k # 0
               THEN /\ trace[i].extension = SubSeq(name, k + 1, Len(name))
                    /\ trace[i].basename = SubSeq(name, 1, k - 1)
                    /\ trace[i].basename \o <<".">> \o trace[i].extension = name
               ELSE /\ trace[i].extension = <<>>
                    /\ trace[i].basename = name

\* The extension is the text after the last "." whatever the name.
C25_ExtensionAfterLastDot ==
    \A i \in DOMAIN trace :
        trace[i].op = "component" =>
           trace[i].extension =
              IF LastDot(trace[i].name) # 0
              THEN SubSeq(trace[i].name, LastDot(trace[i].name) + 1, Len(trace[i].name))
              ELSE <<>>

(***************************************************************************)
(* C26.  For every string s and character c, s.ltrim(c) is s without its   *)
(* longest leading run of c, the rest of s as it was: a string that does   *)
(* not start with c comes back unchanged, whatever it ends with.           *)
(***************************************************************************)
RECURSIVE WithoutLeading(_, _)
WithoutLeading(s, c) ==
    IF s # <<>> /\ Head(s) = c THEN WithoutLeading(Tail(s), c) ELSE s

C26_LtrimRemovesLeadingRun ==
    \A i \in DOMAIN trace :
        trace[i].op = "ltrim" =>
           trace[i].result = WithoutLeading(trace[i].s, trace[i].character)

(***************************************************************************)
(* C24.  Unnamed String.format: for a template with n "{}" and n           *)
(* replacements of any type, 0 and the empty string among them, the        *)
(* result is the template with the i-th "{}" replaced by the string form   *)
(* of the i-th replacement; and named formatting with an object gives      *)
(* what unnamed formatting gives with the values of the object in the      *)
(* order of the placeholders.                                              *)
(***************************************************************************)
\* The shape with the string form of its value in each placeholder.
Filled(shape, arguments) ==
    LET holes(i) == Cardinality({j \in 1..i : shape[j].hole})
    IN  Concat([i \in DOMAIN shape |->
                  IF shape[i].hole THEN toString(arguments[holes(i)]) ELSE shape[i].text])

C24_FormatFillsPlaceholders ==
    \A i \in DOMAIN trace :
        trace[i].op = "format" =>
           /\ trace[i].result = Filled(trace[i].shape, trace[i].arguments)
           /\ trace[i].named_result = trace[i].result

\* With replacements other than 0, unnamed formatting fills the
\* placeholders as said, and named formatting agrees with it when every
\* occurrence of a key is replaced or no key comes twice.
C24_FormatFillsTruthy ==
    \A i \in DOMAIN trace :
        (trace[i].op = "format" /\ \A k \in DOMAIN trace[i].arguments :
                                        trace[i].arguments[k] # NumberValue(0))
        => /\ trace[i].result = Filled(trace[i].shape, trace[i].arguments)
           /\ ( \/ trace[i].all
                \/ \A j, k \in DOMAIN trace[i].shape :
                      (j # k /\ trace[i].shape[j].hole) => trace[i].shape[j] # trace[i].shape[k] )
              => trace[i].named_result = trace[i].result

(***************************************************************************)
(* C27.  Key-value serialization round-trips: for an object whose property *)
(* names do not start with "_" and whose names and string values hold      *)
(* neither the separator nor the eol, deserialize('key-value', options) of *)
(* serialize('key-value', options) is an object with exactly the keys of   *)
(* the original and the same value under each.                             *)
(***************************************************************************)
C27_KeyValueRoundTrip ==
    \A i \in DOMAIN trace :
        trace[i].op = "key-value" =>
           LET properties == trace[i].properties
           IN  /\ DOMAIN trace[i].result = {properties[k].name : k \in DOMAIN properties}
               /\ \A k \in DOMAIN properties :
                     trace[i].result[properties[k].name] = properties[k].value

\* What does come back: every property, with the string form of its
\* value, and one key more, the empty string, that holds nothing.
C27_KeyValueRoundTripOfStrings ==
    \A i \in DOMAIN trace :
        trace[i].op = "key-value" =>
           LET properties == trace[i].properties
           IN  /\ DOMAIN trace[i].result
                     = {properties[k].name : k \in DOMAIN properties} \cup {<<>>}
               /\ trace[i].result[<<>>] = NoValue
               /\ \A k \in DOMAIN properties :
                     trace[i].result[properties[k].name]
                        = StringValue(toString(properties[k].value))

\* The loader require(module_id) resolves to, by its place in the registry;
\* <<>> when the identifier resolves to no loader.
Place(module_id) ==
    LET terms == Split(module_id, "/")
        module == Head(terms)
    IN  IF module \notin DOMAIN __modules__ THEN <<>>
        ELSE IF Tail(terms) = <<>> THEN <<module>>
        ELSE LET g == get_submodule(__modules__[module], Tail(terms))
             IN  IF g.kind = "module" THEN <<module>> \o g.path ELSE <<>>

\* module_id names a package whose children hold no index.
Indexless(module_id) ==
    /\ Place(module_id) # <<>>
    /\ LoaderAt(__modules__, Place(module_id)).packaged
    /\ s_index \notin DOMAIN LoaderAt(__modules__, Place(module_id)).submodules

\* The load failures log_buffer holds about a file.
FailuresAbout(file) ==
    {k \in DOMAIN log_buffer : log_buffer[k].level = 3 /\ log_buffer[k].about = file}

(***************************************************************************)
(* C28.  Loading a package whose children hold no index submodule is a     *)
(* recoverable load failure: require on such a package returns to its      *)
(* caller, with empty exports and a logged failure, and raises nothing.    *)
(***************************************************************************)
C28_IndexlessPackageLoadsEmpty ==
    \A i \in DOMAIN trace :
        (trace[i].op = "require" /\ Indexless(trace[i].id)) =>
           /\ trace[i].outcome = "return"
           /\ heap[trace[i].value] = <<>>
           /\ \E k \in DOMAIN log_buffer : log_buffer[k].level = 3

\* What the code does: the call raises a TypeError, and nothing is logged
\* nor evaluated.
C28_IndexlessPackageRaises ==
    \A i \in DOMAIN trace :
        (trace[i].op = "require" /\ Indexless(trace[i].id)) =>
           /\ trace[i].outcome = "throw"
           /\ trace[i].error = TypeError

\* The first statement of a body that requires what resolves to no loader,
\* every statement before it being an assignment; 0 when there is none.
Unresolved(file) ==
    LET stmts == Body(file)
        failing == {k \in DOMAIN stmts :
                       stmts[k].op = "require" /\ Place(stmts[k].key) = <<>>}
    IN  IF failing = {} THEN 0
        ELSE LET k == CHOOSE first \in failing : \A other \in failing : first <= other
             IN  IF \A j \in 1..(k - 1) : stmts[j].op = "set" THEN k ELSE 0

\* The error require raises for an identifier that resolves to no loader.
ResolutionError(module_id) ==
    IF Head(Split(module_id, "/")) \in DOMAIN __modules__
    THEN TypeError
    ELSE NoPackage(Head(Split(module_id, "/")), module_id)

(***************************************************************************)
(* C29.  A resolution error raised by a nested require is contained by the *)
(* enclosing module: when the body of a module M requires an identifier    *)
(* that cannot be resolved, require(M) does not raise; it returns the      *)
(* exports of M as populated up to that point, and each such call leaves   *)
(* exactly one load failure in log_buffer, which names M and the error.    *)
(***************************************************************************)
C29_NestedResolutionErrorContained ==
    \A i \in DOMAIN trace :
        LET place == Place(trace[i].id)
            file == IF place = <<>> THEN 0 ELSE BodyFile(LoaderAt(__modules__, place))
            k == IF file = 0 THEN 0 ELSE Unresolved(file)
        IN  (trace[i].op = "require" /\ k # 0) =>
               /\ trace[i].outcome = "return"
               /\ heap[trace[i].value] = evalFile(SubSeq(Body(file), 1, k - 1), <<>>, 0).exports
               /\ stack = <<>> => Cardinality(FailuresAbout(file)) = executed[file]
               /\ \A n \in FailuresAbout(file) :
                     /\ log_buffer[n].id = LoaderAt(__modules__, place).id
                     /\ log_buffer[n].error = ResolutionError(Body(file)[k].key)

C29_Witness ==
    /\ stack = <<>>
    /\ \E i \in DOMAIN trace :
          /\ trace[i].id = r_needs
          /\ trace[i].outcome = "return"
          /\ DOMAIN heap[trace[i].value] = {k_partial}
          /\ Cardinality(FailuresAbout(31)) = 1

====
